---- MODULE Spec2Model ----
(***************************************************************************)
(* Letter registry of letter_project/api: the Letter table, the number     *)
(* allocation of LetterListCreateAPIView.perform_create and the            *)
(* cancel / restore handlers.                                              *)
(*                                                                         *)
(* Two specifications share the table:                                     *)
(*   SeqSpec  every request runs to completion before the next one starts *)
(*            (one action per handler);                                    *)
(*   Spec     requests of several clients interleave at the granularity of *)
(*            the database statements each handler issues;                 *)
(*   SignupSpec  interleaved POST /signup/ requests on the auth_user table.*)
(* registered_at is a logical time: the rank of the insert.  In Spec every  *)
(* Create carries the same body and caller, since the text columns are     *)
(* never read by the handlers.                                             *)
(***************************************************************************)
EXTENDS Integers, Sequences, FiniteSets, TLC

\* ---- bounds of the model ------------------------------------------------
MaxLetters == 3
NumProcs == 2
MaxUsers == 3

\* ---- program constants --------------------------------------------------
StartNumber == 301
HTTP_200_OK == 200
HTTP_201_CREATED == 201
HTTP_400_BAD_REQUEST == 400
\* variant of HTTP_404_NOT_FOUND: the except branch answers 200
HTTP_404_ANSWERED_OK == HTTP_200_OK
HTTP_404_NOT_FOUND == 404
HTTP_409_CONFLICT == 409
HTTP_500_ERROR == 500

Procs == 1..NumProcs

\* request.user.username of the authenticated callers
Users == {"u1", "u2"}

\* JSON bodies of POST /letters/: the two writable fields alone, or together
\* with values for every server-set field
Bodies ==
    {[subject |-> sb, addressee |-> "NAPP"] : sb \in {"s1", "s2"}}
    \cup
    {[subject |-> sb, addressee |-> "NAPP", id |-> 9, number |-> 999,
      registered_by_username |-> "mallory", registered_at |-> 0,
      isCancelled |-> TRUE] : sb \in {"s1", "s2"}}

\* the body and the caller of every Create of Spec
ClientBody == [subject |-> "s1", addressee |-> "NAPP"]
ClientUser == "u1"
\* primary keys a client may name: every row that can exist and one that cannot
Pks == 1..(MaxLetters + 1)

VARIABLES
    letters,         \* the Letter table; the index of a row is its primary key
    last,            \* the request the latest step answered and its response
    prev,            \* SeqSpec: the table as it was before that request
    listing,         \* SeqSpec: the primary keys of the rows GET /letters/ sent
    pc,              \* Spec: the statement each client's request is at
    pk,              \* Spec: the primary key named by the request
    active_numbers,  \* Spec: perform_create's local set
    new_number,      \* Spec: perform_create's local
    obj,             \* Spec: the model instance loaded by Letter.objects.get
    users,           \* SignupSpec: the auth_user table
    s_pc,            \* SignupSpec: the statement each sign-up request is at
    s_email          \* SignupSpec: serializer.validated_data['email']

vars == <<letters, last, prev, listing, pc, pk, active_numbers, new_number, obj,
          users, s_pc, s_email>>
procvars == <<pc, pk, active_numbers, new_number, obj>>
signupvars == <<users, s_pc, s_email>>

\* ---- queries on the table -----------------------------------------------
MinOf(S) == CHOOSE x \in S : \A y \in S : x <= y
MaxOf(S) == CHOOSE x \in S : \A y \in S : x >= y

\* Letter.objects.filter(is_cancelled=False)
ActiveIdx(L) == {i \in DOMAIN L : ~L[i].is_cancelled}

\* set(active_letters.values_list('number', flat=True))
ActiveNumbers(L) == {L[i].number : i \in ActiveIdx(L)}

\* filter(is_cancelled=True).exclude(number__in=active_numbers): the numbers
\* of the candidate rows; .order_by('number').first() is the smallest
AvailableCancelled(L, an) ==
    {L[i].number : i \in {j \in DOMAIN L : L[j].is_cancelled /\ L[j].number \notin an}}

\* variants of NextSequential with a slip: the first number one too low;
\* the increment forgotten; the increment doubled
NextSequentialSkips(L) ==
    IF ActiveIdx(L) # {} THEN MaxOf(ActiveNumbers(L)) + 2 ELSE StartNumber
NextSequentialStartsLow(L) ==
    IF ActiveIdx(L) # {} THEN MaxOf(ActiveNumbers(L)) + 1 ELSE StartNumber - 1
NextSequentialNoIncrement(L) ==
    IF ActiveIdx(L) # {} THEN MaxOf(ActiveNumbers(L)) ELSE StartNumber

\* active_letters.aggregate(Max('number')) + 1, or 301 without active letters
NextSequential(L) ==
    IF ActiveIdx(L) # {} THEN MaxOf(ActiveNumbers(L)) + 1 ELSE StartNumber

\* the number perform_create computes from one view of the table
NewNumber(L) ==
    LET available_cancelled == AvailableCancelled(L, ActiveNumbers(L))
    IN  IF available_cancelled # {} THEN MinOf(available_cancelled)
        ELSE NextSequential(L)

\* Letter.objects.filter(number=new_number, is_cancelled=False).exists()
ExistingActive(L, n) == \E i \in DOMAIN L : L[i].number = n /\ ~L[i].is_cancelled

\* variant of UniqueViolation for a column declared without unique=True
UniqueViolationNotDeclared(L, n) == FALSE

\* number = PositiveIntegerField(unique=True): the store rejects a second row
\* holding n, whatever its is_cancelled
UniqueViolation(L, n) == \E i \in DOMAIN L : L[i].number = n

\* variant of ValidatedData where isCancelled is declared without
\* read_only=True: a supplied value reaches the model field is_cancelled
ValidatedDataFlagWritable(b) ==
    IF "isCancelled" \in DOMAIN b
    THEN [subject |-> b.subject, addressee |-> b.addressee,
          is_cancelled |-> b.isCancelled]
    ELSE [subject |-> b.subject, addressee |-> b.addressee]

\* serializer.validated_data: LetterSerializer drops every read-only field
\* (id, number, registered_by_username, registered_at, isCancelled)
ValidatedData(b) == [subject |-> b.subject, addressee |-> b.addressee]

\* registered_at = DateTimeField(auto_now_add=True): the time of the insert
Now(L) == Len(L) + 1

\* serializer.save(number=new_number, registered_by_username=username):
\* the keyword arguments are laid over the validated data and the row is
\* inserted; is_cancelled defaults to False, registered_at is set by the model
InsertLetter(L, vd, n, username) ==
    Append(L, [number |-> n,
               subject |-> vd.subject,
               addressee |-> vd.addressee,
               registered_by_username |-> username,
               registered_at |-> Now(L),
               is_cancelled |-> IF "is_cancelled" \in DOMAIN vd
                                THEN vd.is_cancelled ELSE FALSE])

\* Letter.objects.get(pk=pk)
CancelGet(L, id) == id \in DOMAIN L

\* variant of RestoreGet that drops the is_cancelled=True filter
RestoreGetAnyState(L, id) == id \in DOMAIN L

\* Letter.objects.get(pk=pk, is_cancelled=True)
RestoreGet(L, id) == id \in DOMAIN L /\ L[id].is_cancelled

\* Letter.objects.filter(number=..., is_cancelled=False).exists()
IsReused(L, n) == \E i \in DOMAIN L : L[i].number = n /\ ~L[i].is_cancelled

\* variant of CancelSave whose UPDATE is not narrowed to the primary key
CancelSaveEveryRow(L, id, o) ==
    [i \in DOMAIN L |-> [L[i] EXCEPT !.is_cancelled = TRUE]]

\* variant of CancelSave that flips the flag instead of setting it
CancelSaveToggle(L, id, o) ==
    [L EXCEPT ![id] = [o EXCEPT !.is_cancelled = ~o.is_cancelled]]

\* letter.is_cancelled = True; letter.save(): UPDATE of the row by primary key
CancelSave(L, id, o) == [L EXCEPT ![id] = [o EXCEPT !.is_cancelled = TRUE]]

\* variant of RestoreSave that saves without clearing the flag
RestoreSaveFlagKept(L, id, o) == [L EXCEPT ![id] = o]

\* letter_to_restore.is_cancelled = False; letter_to_restore.save()
RestoreSave(L, id, o) == [L EXCEPT ![id] = [o EXCEPT !.is_cancelled = FALSE]]

NoBody == [subject |-> "", addressee |-> ""]
NoCall == [op |-> "none", pk |-> 0, status |-> 0, number |-> 0,
           user |-> "", body |-> NoBody]
NoObj == [number |-> 0, subject |-> "", addressee |-> "",
          registered_by_username |-> "", registered_at |-> 0,
          is_cancelled |-> FALSE]

Init ==
    /\ letters = <<>>
    /\ last = NoCall
    /\ prev = <<>>
    /\ pc = [p \in Procs |-> "idle"]
    /\ pk = [p \in Procs |-> 0]
    /\ active_numbers = [p \in Procs |-> {}]
    /\ new_number = [p \in Procs |-> 0]
    /\ obj = [p \in Procs |-> NoObj]
    /\ listing = <<>>
    /\ users = <<>>
    /\ s_pc = [p \in Procs |-> "idle"]
    /\ s_email = [p \in Procs |-> <<>>]

\* ---- SeqSpec: one request at a time -------------------------------------

\* variant of perform_create that saves first and checks afterwards, outside
\* a transaction: the check finds the row just saved
perform_createCheckAfterSave(body, username) ==
    LET n == NewNumber(letters)
        saved == IF UniqueViolation(letters, n) THEN letters
                 ELSE InsertLetter(letters, ValidatedData(body), n, username)
        fails == UniqueViolation(letters, n) \/ ExistingActive(saved, n)
    IN  /\ Len(letters) < MaxLetters
        /\ letters' = saved
        /\ last' = [op |-> "create", pk |-> IF fails THEN 0 ELSE Len(letters) + 1,
                    status |-> IF fails THEN HTTP_500_ERROR ELSE HTTP_201_CREATED,
                    number |-> n, user |-> username, body |-> body]
        /\ prev' = letters
        /\ listing' = <<>>
        /\ UNCHANGED <<procvars, signupvars>>

\* POST /letters/ : the whole of perform_create inside its transaction
perform_create(body, username) ==
    LET n == NewNumber(letters)
        fails == ExistingActive(letters, n) \/ UniqueViolation(letters, n)
    IN  /\ fails \/ Len(letters) < MaxLetters
        /\ letters' = IF fails THEN letters
                      ELSE InsertLetter(letters, ValidatedData(body), n, username)
        /\ last' = [op |-> "create", pk |-> IF fails THEN 0 ELSE Len(letters) + 1,
                    status |-> IF fails THEN HTTP_500_ERROR ELSE HTTP_201_CREATED,
                    number |-> n, user |-> username, body |-> body]
        /\ prev' = letters
        /\ listing' = <<>>
        /\ UNCHANGED <<procvars, signupvars>>

\* POST /letters/<pk>/cancel/
cancel_post(id) ==
    /\ letters' = IF CancelGet(letters, id)
                  THEN CancelSave(letters, id, letters[id]) ELSE letters
    /\ last' = [NoCall EXCEPT !.op = "cancel", !.pk = id,
                !.status = IF CancelGet(letters, id)
                           THEN HTTP_200_OK ELSE HTTP_404_NOT_FOUND]
    /\ prev' = letters
    /\ listing' = <<>>
    /\ UNCHANGED <<procvars, signupvars>>

\* POST /letters/<pk>/restore/
restore_post(id) ==
    LET found == RestoreGet(letters, id)
        is_reused == found /\ IsReused(letters, letters[id].number)
    IN  /\ letters' = IF found /\ ~is_reused
                      THEN RestoreSave(letters, id, letters[id]) ELSE letters
        /\ last' = [NoCall EXCEPT !.op = "restore", !.pk = id,
                    !.status = IF ~found THEN HTTP_404_NOT_FOUND
                               ELSE IF is_reused THEN HTTP_409_CONFLICT
                               ELSE HTTP_200_OK]
        /\ prev' = letters
        /\ listing' = <<>>
        /\ UNCHANGED <<procvars, signupvars>>

\* variant of ListOrdering for ordering = ['number']
ListOrderingAscending(L, sq) ==
    \A i, j \in DOMAIN sq : i < j => L[sq[i]].number <= L[sq[j]].number

\* class Meta: ordering = ['-number']: ORDER BY number DESC; rows with equal
\* numbers come in whatever order the store yields
ListOrdering(L, sq) ==
    \A i, j \in DOMAIN sq : i < j => L[sq[i]].number >= L[sq[j]].number

\* queryset = Letter.objects.all(): every row once, in the default ordering
ListResults(L) ==
    {sq \in [1..Len(L) -> DOMAIN L] :
        /\ \A i, j \in DOMAIN sq : i # j => sq[i] # sq[j]
        /\ ListOrdering(L, sq)}

\* GET /letters/
list_get ==
    /\ \E sq \in ListResults(letters) : listing' = sq
    /\ last' = [NoCall EXCEPT !.op = "list", !.status = HTTP_200_OK]
    /\ prev' = letters
    /\ UNCHANGED <<letters, procvars, signupvars>>

SeqNext ==
    \/ list_get
    \/ \E body \in Bodies, username \in Users : perform_create(body, username)
    \/ \E id \in Pks : cancel_post(id)
    \/ \E id \in Pks : restore_post(id)

SeqSpec == Init /\ [][SeqNext]_vars

\* ---- Spec: interleaved requests -----------------------------------------
CreatePcs == {"c_avail", "c_exists", "c_max", "c_check", "c_insert"}

\* the request moves on to statement l; this step answers no request
Goto(p, l) ==
    /\ pc' = [pc EXCEPT ![p] = l]
    /\ last' = NoCall

\* the handler returns (or raises): its locals die, the client is sent a
\* response with this status (Spec keeps the kind of request and the status)
Return(p, o, st) ==
    /\ pc' = [pc EXCEPT ![p] = "idle"]
    /\ pk' = [pk EXCEPT ![p] = 0]
    /\ active_numbers' = [active_numbers EXCEPT ![p] = {}]
    /\ new_number' = [new_number EXCEPT ![p] = 0]
    /\ obj' = [obj EXCEPT ![p] = NoObj]
    /\ last' = [NoCall EXCEPT !.op = o, !.status = st]

CreateError(p) == Return(p, "create", HTTP_500_ERROR)

\* active_numbers = set(active_letters.values_list('number', flat=True))
create_active_numbers(p) ==
    /\ pc[p] = "idle"
    /\ Len(letters) + Cardinality({q \in Procs : pc[q] \in CreatePcs}) < MaxLetters
    /\ active_numbers' = [active_numbers EXCEPT ![p] = ActiveNumbers(letters)]
    /\ Goto(p, "c_avail")
    /\ UNCHANGED <<letters, pk, new_number, obj, prev, listing, signupvars>>

\* available_cancelled = ....first(); if available_cancelled: new_number = ...
create_available(p) ==
    /\ pc[p] = "c_avail"
    /\ LET available_cancelled == AvailableCancelled(letters, active_numbers[p])
       IN  IF available_cancelled # {}
           THEN /\ new_number' = [new_number EXCEPT ![p] = MinOf(available_cancelled)]
                /\ Goto(p, "c_check")
           ELSE /\ new_number' = new_number
                /\ Goto(p, "c_exists")
    /\ UNCHANGED <<letters, pk, active_numbers, obj, prev, listing, signupvars>>

\* if active_letters.exists(): ... else: new_number = 301
create_exists(p) ==
    /\ pc[p] = "c_exists"
    /\ IF ActiveIdx(letters) # {}
       THEN /\ new_number' = new_number
            /\ Goto(p, "c_max")
       ELSE /\ new_number' = [new_number EXCEPT ![p] = NextSequential(letters)]
            /\ Goto(p, "c_check")
    /\ UNCHANGED <<letters, pk, active_numbers, obj, prev, listing, signupvars>>

\* max_active_number = active_letters.aggregate(...)['max_num'];
\* new_number = max_active_number + 1.  The queryset is evaluated again here:
\* with no active row left the aggregate is None and None + 1 raises TypeError
create_max(p) ==
    /\ pc[p] = "c_max"
    /\ IF ActiveIdx(letters) = {}
       THEN CreateError(p)
       ELSE /\ new_number' = [new_number EXCEPT ![p] = NextSequential(letters)]
            /\ Goto(p, "c_check")
            /\ UNCHANGED <<pk, active_numbers, obj>>
    /\ UNCHANGED <<letters, prev, listing, signupvars>>

\* existing_active = ...exists(); if existing_active: raise ValueError
create_check(p) ==
    /\ pc[p] = "c_check"
    /\ IF ExistingActive(letters, new_number[p])
       THEN CreateError(p)
       ELSE /\ Goto(p, "c_insert")
            /\ UNCHANGED <<pk, active_numbers, new_number, obj>>
    /\ UNCHANGED <<letters, prev, listing, signupvars>>

\* letter = serializer.save(number=new_number, ...) and the commit of the
\* transaction; an IntegrityError rolls back and propagates
create_insert(p) ==
    /\ pc[p] = "c_insert"
    /\ IF UniqueViolation(letters, new_number[p])
       THEN /\ CreateError(p)
            /\ letters' = letters
       ELSE /\ letters' = InsertLetter(letters, ValidatedData(ClientBody),
                                       new_number[p], ClientUser)
            /\ Return(p, "create", HTTP_201_CREATED)
    /\ UNCHANGED <<prev, listing, signupvars>>

\* letter = Letter.objects.get(pk=pk)
cancel_get(p, id) ==
    /\ pc[p] = "idle"
    /\ IF CancelGet(letters, id)
       THEN /\ pk' = [pk EXCEPT ![p] = id]
            /\ obj' = [obj EXCEPT ![p] = letters[id]]
            /\ Goto(p, "k_save")
            /\ UNCHANGED <<active_numbers, new_number>>
       ELSE Return(p, "cancel", HTTP_404_NOT_FOUND)
    /\ UNCHANGED <<letters, prev, listing, signupvars>>

\* letter.is_cancelled = True; letter.save(); return 200
cancel_save(p) ==
    /\ pc[p] = "k_save"
    /\ letters' = CancelSave(letters, pk[p], obj[p])
    /\ Return(p, "cancel", HTTP_200_OK)
    /\ UNCHANGED <<prev, listing, signupvars>>

\* letter_to_restore = Letter.objects.get(pk=pk, is_cancelled=True)
restore_get(p, id) ==
    /\ pc[p] = "idle"
    /\ IF RestoreGet(letters, id)
       THEN /\ pk' = [pk EXCEPT ![p] = id]
            /\ obj' = [obj EXCEPT ![p] = letters[id]]
            /\ Goto(p, "r_check")
            /\ UNCHANGED <<active_numbers, new_number>>
       ELSE Return(p, "restore", HTTP_404_NOT_FOUND)
    /\ UNCHANGED <<letters, prev, listing, signupvars>>

\* is_reused = ...exists(); if is_reused: return 409
restore_check(p) ==
    /\ pc[p] = "r_check"
    /\ IF IsReused(letters, obj[p].number)
       THEN Return(p, "restore", HTTP_409_CONFLICT)
       ELSE /\ Goto(p, "r_save")
            /\ UNCHANGED <<pk, active_numbers, new_number, obj>>
    /\ UNCHANGED <<letters, prev, listing, signupvars>>

\* letter_to_restore.is_cancelled = False; letter_to_restore.save(); return 200
restore_save(p) ==
    /\ pc[p] = "r_save"
    /\ letters' = RestoreSave(letters, pk[p], obj[p])
    /\ Return(p, "restore", HTTP_200_OK)
    /\ UNCHANGED <<prev, listing, signupvars>>

Next ==
    \E p \in Procs :
        \/ create_active_numbers(p)
        \/ create_available(p)
        \/ create_exists(p)
        \/ create_max(p)
        \/ create_check(p)
        \/ create_insert(p)
        \/ \E id \in Pks : cancel_get(p, id)
        \/ cancel_save(p)
        \/ \E id \in Pks : restore_get(p, id)
        \/ restore_check(p)
        \/ restore_save(p)

Spec == Init /\ [][Next]_vars

\* ---- SignupSpec: interleaved sign-up requests ----------------------------
\* an e-mail address is the sequence of the characters of its local part,
\* "@", and its domain as one token

\* the characters [a-zA-Z0-9\.\+_-] that occur in the addresses below
LocalChars == {"a", "b", "."}
Domain == "mosaic-insurance.com"

\* addresses a client may post (all pass EmailField)
Emails ==
    { <<"a", "@", Domain>>, <<"b", "@", Domain>>, <<"a", ".", "b", "@", Domain>>,
      <<"a", "@", "example.org">> }

\* re.match(r"^[a-zA-Z0-9\.\+_-]+@mosaic-insurance\.com$", value)
FormatOk(e) ==
    /\ Len(e) >= 3
    /\ \A i \in 1..(Len(e) - 2) : e[i] \in LocalChars
    /\ e[Len(e) - 1] = "@"
    /\ e[Len(e)] = Domain

\* value.split('@')[0]
Username(e) ==
    LET ats == {i \in DOMAIN e : e[i] = "@"}
    IN  IF ats = {} THEN e ELSE SubSeq(e, 1, MinOf(ats) - 1)

\* User.objects.filter(email=value).exists()
EmailExists(U, e) == \E i \in DOMAIN U : U[i].email = e

\* User.objects.filter(username=username).exists()
UsernameExists(U, n) == \E i \in DOMAIN U : U[i].username = n

\* variant of UsernameTaken for a user table without the unique username
UsernameTakenNotEnforced(U, n) == FALSE

\* User.objects.create_user: auth_user.username is unique, the INSERT of a
\* second row with the username raises IntegrityError
UsernameTaken(U, n) == \E i \in DOMAIN U : U[i].username = n

SignupPcs == {"s_username", "s_create", "s_mail"}

SignupReturn(p, st) ==
    /\ s_pc' = [s_pc EXCEPT ![p] = "idle"]
    /\ s_email' = [s_email EXCEPT ![p] = <<>>]
    /\ last' = [NoCall EXCEPT !.op = "signup", !.status = st]

\* serializer.is_valid: validate_email up to the first exists() query
signup_check_email(p, e) ==
    /\ s_pc[p] = "idle"
    /\ Len(users) + Cardinality({q \in Procs : s_pc[q] \in SignupPcs}) < MaxUsers
    /\ IF ~FormatOk(e) \/ EmailExists(users, e)
       THEN SignupReturn(p, HTTP_400_BAD_REQUEST)
       ELSE /\ s_pc' = [s_pc EXCEPT ![p] = "s_username"]
            /\ s_email' = [s_email EXCEPT ![p] = e]
            /\ last' = NoCall
    /\ UNCHANGED <<users, letters, prev, listing, procvars>>

\* ... or User.objects.filter(username=username).exists()
signup_check_username(p) ==
    /\ s_pc[p] = "s_username"
    /\ IF UsernameExists(users, Username(s_email[p]))
       THEN SignupReturn(p, HTTP_400_BAD_REQUEST)
       ELSE /\ s_pc' = [s_pc EXCEPT ![p] = "s_create"]
            /\ last' = NoCall
            /\ UNCHANGED s_email
    /\ UNCHANGED <<users, letters, prev, listing, procvars>>

\* user = User.objects.create_user(username=username, email=email, ...)
signup_create(p) ==
    /\ s_pc[p] = "s_create"
    /\ IF UsernameTaken(users, Username(s_email[p]))
       THEN /\ SignupReturn(p, HTTP_500_ERROR)
            /\ users' = users
       ELSE /\ users' = Append(users, [username |-> Username(s_email[p]),
                                       email |-> s_email[p]])
            /\ s_pc' = [s_pc EXCEPT ![p] = "s_mail"]
            /\ last' = NoCall
            /\ UNCHANGED s_email
    /\ UNCHANGED <<letters, prev, listing, procvars>>

\* send_mail(..., fail_silently=False); return 201.  The mailer may raise
signup_mail(p) ==
    /\ s_pc[p] = "s_mail"
    /\ \E sent \in BOOLEAN :
          SignupReturn(p, IF sent THEN HTTP_201_CREATED ELSE HTTP_500_ERROR)
    /\ UNCHANGED <<users, letters, prev, listing, procvars>>

SignupNext ==
    \E p \in Procs :
        \/ \E e \in Emails : signup_check_email(p, e)
        \/ signup_check_username(p)
        \/ signup_create(p)
        \/ signup_mail(p)

SignupSpec == Init /\ [][SignupNext]_vars

\* ---- properties ---------------------------------------------------------
NoDupActive(L) ==
    \A i, j \in DOMAIN L :
        (i # j /\ ~L[i].is_cancelled /\ ~L[j].is_cancelled) => L[i].number # L[j].number

\* numbers of cancelled letters that no active letter holds
FreeCancelled(L) == AvailableCancelled(L, ActiveNumbers(L))

\* L1 is L0 with one more row, an active letter numbered n
Appended(L0, L1, n) ==
    /\ Len(L1) = Len(L0) + 1
    /\ SubSeq(L1, 1, Len(L0)) = L0
    /\ L1[Len(L1)].number = n
    /\ ~L1[Len(L1)].is_cancelled

\* C1: in every reachable state no two active letters share a number, and the
\* number a Create inserts is held by no letter active at that moment.
C1_ActiveNumbersUnique ==
    /\ [](NoDupActive(letters))
    /\ [][Len(letters') > Len(letters) =>
            letters'[Len(letters')].number \notin ActiveNumbers(letters)]_vars

C1_Witness ==
    /\ last.op = "create" /\ last.status = HTTP_201_CREATED
    /\ Cardinality(ActiveIdx(letters)) >= 2
    /\ \E i \in DOMAIN letters : letters[i].is_cancelled

\* C2: a Create served while some cancelled letter's number is held by no
\* active letter succeeds and appends an active letter carrying the smallest
\* such number, which a cancelled letter then shares.
C2_CreateReusesSmallestFree ==
    (last.op = "create" /\ FreeCancelled(prev) # {}) =>
        /\ last.status = HTTP_201_CREATED
        /\ Appended(prev, letters, MinOf(FreeCancelled(prev)))
        /\ \E i \in DOMAIN prev :
              prev[i].is_cancelled /\ prev[i].number = letters[Len(letters)].number

\* C3: a Create served on a table without cancelled letters (as every Create
\* of a Cancel-free run from the empty table is) succeeds; the k-th letter
\* gets 300 + k, which exceeds every number assigned before.
C3_SequentialNumbers ==
    (last.op = "create" /\ \A i \in DOMAIN prev : ~prev[i].is_cancelled) =>
        /\ last.status = HTTP_201_CREATED
        /\ last.number = 300 + Len(prev) + 1
        /\ Appended(prev, letters, last.number)
        /\ \A i \in DOMAIN prev : prev[i].number = 300 + i /\ prev[i].number < last.number

C3_Witness ==
    /\ last.op = "create" /\ last.status = HTTP_201_CREATED
    /\ Len(letters) = 3 /\ last.number = 303
    /\ \A i \in DOMAIN letters : ~letters[i].is_cancelled

\* C4: a Restore of a cancelled letter whose number an active letter holds
\* answers 409 and changes no letter.
C4_RestoreConflict ==
    (last.op = "restore" /\ last.pk \in DOMAIN prev /\ prev[last.pk].is_cancelled
        /\ prev[last.pk].number \in ActiveNumbers(prev)) =>
        (last.status = HTTP_409_CONFLICT /\ letters = prev)

\* the case of C4 does not arise: no cancelled letter shares its number with
\* an active one
C4_CaseNeverArises ==
    \A i \in DOMAIN letters :
        letters[i].is_cancelled => letters[i].number \notin ActiveNumbers(letters)

\* C5: a Restore of a cancelled letter whose number no active letter holds
\* answers 200 and makes exactly that letter active; a letter's number never
\* changes, so it is the number the letter was created with.
C5_RestoreFree ==
    /\ []((last.op = "restore" /\ last.pk \in DOMAIN prev /\ prev[last.pk].is_cancelled
             /\ prev[last.pk].number \notin ActiveNumbers(prev)) =>
            /\ last.status = HTTP_200_OK
            /\ letters = [prev EXCEPT ![last.pk].is_cancelled = FALSE])
    /\ [][\A i \in DOMAIN letters :
            i \in DOMAIN letters' /\ letters'[i].number = letters[i].number]_vars

C5_Witness ==
    /\ last.op = "restore" /\ last.status = HTTP_200_OK
    /\ prev[last.pk].is_cancelled /\ ~letters[last.pk].is_cancelled
    /\ letters[last.pk].number = prev[last.pk].number
    /\ Len(letters) >= 2

\* C6: whatever the interleaving of the statements of concurrent Creates, the
\* insert of a Create never leaves two active letters with the same number.
C6_ConcurrentCreates ==
    [][\A p \in Procs :
         (pc[p] = "c_insert" /\ pc'[p] = "idle") => NoDupActive(letters')]_vars

\* two Creates chose the same number; one has inserted it, the other is
\* about to insert
C6_Witness ==
    \E p \in Procs :
        /\ pc[p] = "c_insert"
        /\ last.op = "create" /\ last.status = HTTP_201_CREATED
        /\ new_number[p] \notin active_numbers[p]
        /\ ExistingActive(letters, new_number[p])

C8_CancelIdempotent ==
    /\ (last.op = "cancel" /\ last.pk \in DOMAIN prev) =>
          /\ last.status = HTTP_200_OK
          /\ letters = [prev EXCEPT ![last.pk].is_cancelled = TRUE]
          /\ (prev[last.pk].is_cancelled => letters = prev)
    /\ \A id \in DOMAIN letters :
          LET once == CancelSave(letters, id, letters[id])
          IN  CancelSave(once, id, once[id]) = once

C8_Witness ==
    /\ last.op = "cancel" /\ last.status = HTTP_200_OK
    /\ prev[last.pk].is_cancelled /\ letters = prev
    /\ Len(letters) >= 2

\* C9: when no cancelled letter's number is free of active use, the fallback
\* of the code (1 + maximum over active letters, 301 without active letters)
\* is 1 + the maximum over all letters, and 301 exactly on the empty table;
\* it is the number Create assigns.
C9_FallbackIsMaxOverAll ==
    /\ FreeCancelled(letters) = {} =>
          /\ NextSequential(letters) =
                (IF Len(letters) = 0 THEN 301
                 ELSE 1 + MaxOf({letters[i].number : i \in DOMAIN letters}))
          /\ (NextSequential(letters) = 301 <=> Len(letters) = 0)
    /\ (last.op = "create" /\ FreeCancelled(prev) = {}) =>
          /\ last.number =
                (IF Len(prev) = 0 THEN 301
                 ELSE 1 + MaxOf({prev[i].number : i \in DOMAIN prev}))
          /\ last.status = HTTP_201_CREATED
          /\ Appended(prev, letters, last.number)

C9_Witness ==
    /\ last.op = "create" /\ last.status = HTTP_201_CREATED
    /\ FreeCancelled(prev) = {} /\ Len(prev) >= 1
    /\ last.number = 1 + MaxOf({prev[i].number : i \in DOMAIN prev})

\* C10: a Restore naming no letter, or an active letter, answers 404 and
\* changes no letter.
C10_RestoreNotFound ==
    (last.op = "restore" /\ (last.pk \notin DOMAIN prev \/ ~prev[last.pk].is_cancelled)) =>
        (last.status = HTTP_404_NOT_FOUND /\ letters = prev)

C10_Witness ==
    /\ last.op = "restore" /\ last.status = HTTP_404_NOT_FOUND
    /\ last.pk \in DOMAIN prev /\ ~prev[last.pk].is_cancelled
    /\ letters = prev

\* C11: a Cancel naming no letter answers 404 and leaves the table as it
\* was: no letter is created or modified.
C11_CancelNotFound ==
    (last.op = "cancel" /\ last.pk \notin DOMAIN prev) =>
        (last.status = 404 /\ letters = prev)

C11_Witness ==
    /\ last.op = "cancel" /\ last.pk \notin DOMAIN prev
    /\ last.status = 404
    /\ Len(letters) >= 1 /\ letters = prev

\* C12: List returns every letter exactly once, by number descending; among
\* letters with equal number the active ones first; among letters equal on
\* both, by registered_at descending.
C12_ListOrder ==
    last.op = "list" =>
        /\ Len(listing) = Len(letters)
        /\ \A id \in DOMAIN letters :
              Cardinality({i \in DOMAIN listing : listing[i] = id}) = 1
        /\ \A i, j \in DOMAIN listing :
              i < j =>
                LET a == letters[listing[i]]
                    b == letters[listing[j]]
                IN  \/ a.number > b.number
                    \/ /\ a.number = b.number
                       /\ \/ (~a.is_cancelled /\ b.is_cancelled)
                          \/ /\ a.is_cancelled = b.is_cancelled
                             /\ a.registered_at >= b.registered_at

C12_Witness ==
    /\ last.op = "list" /\ Len(listing) = 3
    /\ letters[listing[1]].number > letters[listing[3]].number
    /\ \E i, j \in DOMAIN letters : letters[i].is_cancelled /\ ~letters[j].is_cancelled

\* C13: no step deletes a letter or changes a letter's number, subject,
\* addressee, registered_by_username or registered_at (its id is its place in
\* the table); a new letter starts active; is_cancelled changes only from
\* false to true by a Cancel naming the letter and from true to false by a
\* successful Restore naming it, so Cancel and Restore touch no other letter.
C13_Frame ==
    [][/\ Len(letters') >= Len(letters)
       /\ \A i \in DOMAIN letters :
            /\ letters'[i].number = letters[i].number
            /\ letters'[i].subject = letters[i].subject
            /\ letters'[i].addressee = letters[i].addressee
            /\ letters'[i].registered_by_username = letters[i].registered_by_username
            /\ letters'[i].registered_at = letters[i].registered_at
            /\ (letters'[i].is_cancelled # letters[i].is_cancelled) =>
                 \/ /\ last'.op = "cancel" /\ last'.pk = i
                    /\ letters'[i].is_cancelled
                 \/ /\ last'.op = "restore" /\ last'.pk = i
                    /\ last'.status = HTTP_200_OK
                    /\ ~letters'[i].is_cancelled
       /\ \A i \in DOMAIN letters' : i \notin DOMAIN letters => ~letters'[i].is_cancelled
       /\ last'.op \in {"cancel", "restore"} =>
                 Len(letters') = Len(letters)]_vars

C13_Witness ==
    /\ last.op = "cancel" /\ last.status = HTTP_200_OK
    /\ Len(letters) = 3 /\ Len(prev) = 3
    /\ ~prev[last.pk].is_cancelled /\ letters[last.pk].is_cancelled
    /\ \A i \in DOMAIN letters : i # last.pk => letters[i] = prev[i]
    /\ \E i \in DOMAIN letters : ~letters[i].is_cancelled

\* C15: a Create that fails (its number is in use by an active letter, or the
\* store rejects the insert) persists nothing: the table is as it was before.
C15_FailedCreatePersistsNothing ==
    (last.op = "create" /\ last.status # HTTP_201_CREATED) =>
        (last.status = HTTP_500_ERROR /\ letters = prev)

C15_Witness ==
    /\ last.op = "create" /\ last.status = HTTP_500_ERROR
    /\ UniqueViolation(prev, last.number)
    /\ Len(prev) >= 2 /\ letters = prev

\* C16: the letter a Create stores is active, carries the caller's username,
\* the number the allocation computes and the time of the insert, and the
\* subject and addressee of the body; a number, registered_by_username,
\* registered_at or isCancelled supplied in the body changes nothing of it.
C16_ServerSetFields ==
    (last.op = "create" /\ last.status = HTTP_201_CREATED) =>
        LET row == letters[Len(letters)]
        IN  /\ Len(letters) = Len(prev) + 1
            /\ ~row.is_cancelled
            /\ row.registered_by_username = last.user
            /\ row.number = NewNumber(prev)
            /\ row.registered_at = Len(letters)
            /\ row.subject = last.body.subject
            /\ row.addressee = last.body.addressee
            /\ "number" \in DOMAIN last.body =>
                 /\ row.number # last.body.number
                 /\ row.registered_by_username # last.body.registered_by_username
                 /\ row.registered_at # last.body.registered_at
                 /\ row.is_cancelled # last.body.isCancelled

C16_Witness ==
    /\ last.op = "create" /\ last.status = HTTP_201_CREATED
    /\ "number" \in DOMAIN last.body /\ last.body.isCancelled
    /\ last.user = "u2" /\ letters[Len(letters)].registered_by_username = "u2"
    /\ Len(letters) >= 2

C18_NoGaps ==
    LET nums == {letters[i].number : i \in DOMAIN letters}
    IN  /\ \A n \in nums : n >= 301
        /\ nums # {} => nums = 301..MaxOf(nums)
        /\ (last.op = "create" /\ last.status = HTTP_201_CREATED) =>
              last.number = (IF Len(prev) = 0 THEN 301
                             ELSE 1 + MaxOf({prev[i].number : i \in DOMAIN prev}))

C18_Witness ==
    /\ Len(letters) = 3
    /\ {letters[i].number : i \in DOMAIN letters} = 301..303
    /\ letters[2].is_cancelled /\ ~letters[3].is_cancelled
    /\ last.op = "restore" /\ last.status = HTTP_200_OK

\* C14: in every interleaving of Signups no two users share an e-mail or a
\* username; a Signup that finds its e-mail or username with a user when it
\* validates answers 400, and no failing Signup creates a user.
C14_SignupUnique ==
    /\ [](\A i, j \in DOMAIN users :
            i # j => (users[i].email # users[j].email
                      /\ users[i].username # users[j].username))
    /\ [][\A p \in Procs :
            /\ (s_pc[p] = "idle" /\ s_pc'[p] = "s_username") =>
                  ~EmailExists(users, s_email'[p])
            /\ (s_pc[p] = "s_username" /\ s_pc'[p] = "s_create") =>
                  ~UsernameExists(users, Username(s_email[p]))
            /\ (s_pc[p] = "s_username" /\ s_pc'[p] = "idle") =>
                  (last'.status = 400 /\ users' = users)
            /\ (s_pc[p] = "s_create" /\ s_pc'[p] = "idle") => users' = users]_vars

\* two Signups with the same address have both passed validation and one has
\* created its user
C14_Witness ==
    \E p, q \in Procs :
        /\ p # q /\ s_pc[p] = "s_create" /\ s_pc[q] = "s_mail"
        /\ s_email[p] = s_email[q]
        /\ EmailExists(users, s_email[p])

====
